---- MODULE Spec2Model ----
(***************************************************************************)
(* Model of quantum_portfolio_optimizer.ipynb.                             *)
(*                                                                         *)
(* Three specifications share the variables below.                         *)
(*   SpecLoad    : one call of load_asset_data(symbols, start_date,        *)
(*                 end_date) with the inputs and the downloaded prices     *)
(*                 drawn from bounded sets.                                *)
(*   Spec        : the cells of the notebook executed top to bottom        *)
(*                 (example, Exercise 1, Exercise 2) against the remote    *)
(*                 solver; execution stops at the first cell that raises.  *)
(*   SpecMetrics : the metrics cells on any result of bounded size.        *)
(*                                                                         *)
(* Dependencies are the ones the notebook pins in its first cell:          *)
(* yfinance==0.2.60 and pandas==2.1.4.                                     *)
(***************************************************************************)
EXTENDS Integers, Sequences, FiniteSets, TLC

VARIABLES
    \* ---- load_asset_data ----
    symbols,        \* argument: list of ticker symbols (each a sequence of characters)
    start_date,     \* argument: <<y, m, d>>, the fields of a 'YYYY-MM-DD' string
    end_date,       \* argument: <<y, m, d>>
    market,         \* what Yahoo Finance has: ticker -> (day ordinal -> close price)
    series_list,    \* the local series_list
    assets,         \* the returned dictionary (NoValue until the function returns)
    lpc,            \* position in load_asset_data: "loop", "returned", "raised"
    \* ---- notebook cells ----
    pc,             \* the next cell to execute
    env,            \* the notebook's global names -> values
    heap,           \* dictionaries that are shared by reference: address -> dict
    jobs,           \* jobs submitted to the remote solver, in submission order
    retrieved,      \* indices of the jobs whose result() has been returned
    printed         \* what the last metrics cell printed (<< >> before)

loadVars == <<symbols, start_date, end_date, market, series_list, assets, lpc>>
nbVars == <<pc, env, heap, jobs, retrieved, printed>>
vars == <<symbols, start_date, end_date, market, series_list, assets, lpc,
          pc, env, heap, jobs, retrieved, printed>>

NoValue == "none"

(***************************************************************************)
(* Bounds.                                                                 *)
(***************************************************************************)
MaxSymbols == 2     \* longest symbols list
NumDays == 3        \* calendar days start_date and end_date are drawn from
MaxSamples == 2     \* most samples in a result's all_samples_metrics
MaxSessions == 2    \* session ids the remote service hands out

\* Ticker strings, as sequences of characters.
SymbolPool == { <<"A">>, <<"b", ".", "C">> }

\* Close prices.
Prices == {1, 2}

\* The first day of the window of dates; the window crosses a leap day.
FirstDate == <<2024, 2, 28>>

(***************************************************************************)
(* Calendar: pandas keeps a date as a count of days (nanoseconds, for      *)
(* whole days) since 1970-01-01 and prints it as 'YYYY-MM-DD'.             *)
(***************************************************************************)
\* pd.Timestamp('YYYY-MM-DD'): the day count of a civil date.
ToOrdinal(date) ==
    LET y == IF date[2] <= 2 THEN date[1] - 1 ELSE date[1]
        era == y \div 400
        yoe == y - era * 400
        mp == IF date[2] > 2 THEN date[2] - 3 ELSE date[2] + 9
        doy == (153 * mp + 2) \div 5 + date[3] - 1
        doe == yoe * 365 + yoe \div 4 - yoe \div 100 + doy
    IN  era * 146097 + doe - 719468

\* index.astype(str): the civil date of a day count.
FromOrdinal(n) ==
    LET z == n + 719468
        era == z \div 146097
        doe == z - era * 146097
        yoe == (doe - doe \div 1460 + doe \div 36524 - doe \div 146096) \div 365
        doy == doe - (365 * yoe + yoe \div 4 - yoe \div 100)
        mp == (5 * doy + 2) \div 153
        d == doy - (153 * mp + 2) \div 5 + 1
        m == IF mp < 10 THEN mp + 3 ELSE mp - 9
        y == yoe + era * 400
    IN  << IF m <= 2 THEN y + 1 ELSE y, m, d >>

\* The dates the arguments are drawn from.
DatePool == { FromOrdinal(ToOrdinal(FirstDate) + k) : k \in 0 .. NumDays - 1 }

(***************************************************************************)
(* Strings.                                                                *)
(***************************************************************************)
\* symbol.replace(".", "_")
Replace(symbol) ==
    [k \in 1 .. Len(symbol) |-> IF symbol[k] = "." THEN "_" ELSE symbol[k]]

\* str.upper() on the characters of the pool
UpperChar(c) ==
    CASE c = "a" -> "A"
      [] c = "b" -> "B"
      [] c = "c" -> "C"
      [] OTHER -> c

\* yfinance labels what it downloads by ticker.upper()
Ticker(symbol) == [k \in 1 .. Len(symbol) |-> UpperChar(symbol[k])]

(***************************************************************************)
(* pandas operations on one column, held as a sequence aligned with        *)
(* full_index.  NaN marks a missing value.                                 *)
(***************************************************************************)
NaN == 0

\* a range that stops the day before `end`
DateRangeHalfOpen(start, end) ==
    [k \in 1 .. (ToOrdinal(end) - ToOrdinal(start)) |-> ToOrdinal(start) + k - 1]

\* pd.date_range(start=start_date, end=end_date, freq='D')
DateRange(start, end) ==
    [k \in 1 .. (ToOrdinal(end) - ToOrdinal(start) + 1) |-> ToOrdinal(start) + k - 1]

\* data.reindex(full_index)
Reindex(data, full_index) ==
    [k \in 1 .. Len(full_index) |->
        IF full_index[k] \in DOMAIN data THEN data[full_index[k]] ELSE NaN]

\* data.ffill(): a missing value takes the last value before it, if any
RECURSIVE FfillTo(_, _)
FfillTo(s, k) ==
    IF k = 0 THEN << >>
    ELSE LET done == FfillTo(s, k - 1)
         IN  Append(done, IF s[k] # NaN THEN s[k]
                          ELSE IF k = 1 THEN NaN ELSE done[k - 1])

\* no forward fill at all
FfillSkipped(s) == s

Ffill(s) == FfillTo(s, Len(s))

\* data.bfill(): a missing value takes the next value after it, if any
RECURSIVE BfillFrom(_, _)
BfillFrom(s, k) ==
    IF k > Len(s) THEN << >>
    ELSE LET done == BfillFrom(s, k + 1)
         IN  << IF s[k] # NaN THEN s[k]
                ELSE IF k = Len(s) THEN NaN ELSE done[1] >> \o done

\* no backward fill at all
BfillSkipped(s) == s

Bfill(s) == BfillFrom(s, 1)

Range(s) == { s[k] : k \in DOMAIN s }

\* df.index.astype(str); df.to_dict(): {column: {date: value}}; of several
\* columns with one label the last one is kept
ToDict(frames, full_index) ==
    [label \in { frames[k].column : k \in DOMAIN frames } |->
        LET last == CHOOSE k \in DOMAIN frames :
                        /\ frames[k].column = label
                        /\ \A j \in DOMAIN frames : frames[j].column = label => j <= k
        IN  [date \in { FromOrdinal(full_index[k]) : k \in DOMAIN full_index } |->
                LET k == CHOOSE k \in DOMAIN full_index : FromOrdinal(full_index[k]) = date
                IN  frames[last].values[k]]]

(***************************************************************************)
(* load_asset_data                                                         *)
(***************************************************************************)
full_index == DateRange(start_date, end_date)

\* What yf.download(symbol, start=start_date, end=end_date)["Close"] can hold:
\* close prices for any of the days asked for.
Downloads ==
    UNION { [days -> Prices] : days \in SUBSET Range(full_index) }

SymbolLists == UNION { [1 .. n -> SymbolPool] : n \in 0 .. MaxSymbols }

LoadInit ==
    /\ symbols \in SymbolLists
    /\ start_date \in DatePool
    /\ end_date \in DatePool
    /\ market = << >>
    /\ series_list = << >>
    /\ assets = NoValue
    /\ lpc = "loop"

\* One iteration of `for symbol, name in zip(symbols, symbol_names)`.
\* yfinance 0.2.60 returns columns indexed by (price, ticker), so ["Close"] is a
\* one-column frame labelled with the ticker, and `data.name = name` only sets
\* an attribute of that frame object, which reindex() does not carry over.
LoadIteration ==
    /\ lpc = "loop"
    /\ Len(series_list) < Len(symbols)
    /\ LET symbol == symbols[Len(series_list) + 1]
           name == Replace(symbol)
           ticker == Ticker(symbol)
       IN  \E close \in Downloads :
             /\ ticker \in DOMAIN market => close = market[ticker]
             /\ market' = (ticker :> close) @@ market
             /\ LET data == [column |-> ticker, name |-> name, values |-> close]
                    reindexed == [column |-> data.column,
                                  values |-> Reindex(data.values, full_index)]
                    filled == [reindexed EXCEPT !.values = Bfill(Ffill(@))]
               IN  series_list' = Append(series_list, filled)
    /\ UNCHANGED <<symbols, start_date, end_date, assets, lpc>>

\* pd.concat(series_list, axis=1), index.astype(str), to_dict(), return
LoadReturn ==
    /\ lpc = "loop"
    /\ Len(series_list) = Len(symbols)
    /\ series_list # << >>
    /\ assets' = ToDict(series_list, full_index)
    /\ lpc' = "returned"
    /\ UNCHANGED <<symbols, start_date, end_date, market, series_list>>

\* pd.concat([]) raises ValueError: No objects to concatenate
LoadRaise ==
    /\ lpc = "loop"
    /\ symbols = << >>
    /\ lpc' = "raised"
    /\ UNCHANGED <<symbols, start_date, end_date, market, series_list, assets>>

(***************************************************************************)
(* The notebook's cells.  `env` holds the global names; a name no cell has *)
(* assigned yet holds the unset value of its type.  Dictionaries that two  *)
(* names can share (optimizer_settings, optimizer_settings_ex1) live in    *)
(* `heap` and the names hold their address.                                *)
(***************************************************************************)
UnsetQubo == [nt |-> 0, nq |-> 0, dt |-> 0, max_investment |-> 0]

UnsetAnsatz == [ansatz |-> "unset", multiple_passmanager |-> "unset"]

UnsetResult == [defined |-> FALSE,
                metadata |-> [session_id |-> 0, all_samples_metrics |-> << >>]]

UnsetEnv ==
    [assets |-> 0, max_investment |-> 0, num_generations |-> 0, population_size |-> 0,
     qubo_settings |-> UnsetQubo, optimizer_settings |-> 0, optimizer_settings_ex1 |-> 0,
     ansatz_settings |-> UnsetAnsatz, backend_name |-> "unset", apply_postprocess |-> "unset",
     dpo_job |-> 0, dpo_result |-> UnsetResult, num_generations_ex1 |-> 0,
     session_id |-> 0, previous_session_id |-> << >>]

\* One sample of all_samples_metrics: the columns the metrics cells read.
RowPool ==
    [objective_costs : {1, 2}, rest_breaches : {0, 1}, sharpe_ratios : {1, 2},
     transaction_costs : {1, 2}, returns : {1, 2}]

\* all_samples_metrics of any result, as the rows pd.DataFrame makes of it
Tables == UNION { [1 .. n -> RowPool] : n \in 0 .. MaxSamples }

\* all_samples_metrics of the results drawn while the cells run in order
FlowTables ==
    { << >>,
      << [objective_costs |-> 2, rest_breaches |-> 0, sharpe_ratios |-> 1,
          transaction_costs |-> 1, returns |-> 2],
         [objective_costs |-> 1, rest_breaches |-> 1, sharpe_ratios |-> 2,
          transaction_costs |-> 2, returns |-> 1] >> }

SessionIds == 1 .. MaxSessions

\* The cells in the order of the file.
CellOrder ==
    << "example_data", "example_max_investment", "example_generations",
       "example_settings", "example_run", "example_result", "example_metrics",
       "ex1_data", "ex1_generations", "ex1_settings", "ex1_run", "ex1_status",
       "ex1_result", "ex1_metrics", "ex2_generations", "ex2_settings", "ex2_run",
       "ex2_status", "end" >>

\* an order with the Exercise 2 cells placed before the Exercise 1 result cell
CellOrderResumeEarly ==
    << "example_data", "example_max_investment", "example_generations",
       "example_settings", "example_run", "example_result", "example_metrics",
       "ex1_data", "ex1_generations", "ex1_settings", "ex1_run", "ex1_status",
       "ex2_generations", "ex2_settings", "ex2_run", "ex2_status",
       "ex1_result", "ex1_metrics", "end" >>

After(order, cell) ==
    order[1 + CHOOSE k \in DOMAIN order : order[k] = cell]

NextCellResumeEarly(cell) == After(CellOrderResumeEarly, cell)

\* the cell below `cell`
NextCell(cell) == After(CellOrder, cell)

\* dpo_solver.run(...): the arguments are serialised when the job is submitted
Submit(cell, args, session) ==
    Append(jobs, [cell |-> cell, params |-> args, session |-> session])

\* the keyword arguments of a run that names the six settings
RunArgs(e, optimizer_settings, previous_session_id) ==
    [assets |-> e.assets,
     qubo_settings |-> e.qubo_settings,
     optimizer_settings |-> heap[optimizer_settings],
     ansatz_settings |-> e.ansatz_settings,
     backend_name |-> e.backend_name,
     apply_postprocess |-> e.apply_postprocess,
     previous_session_id |-> previous_session_id]

\* dpo_job.result() of a finished job
ResultOf(job, table) ==
    [defined |-> TRUE,
     metadata |-> [session_id |-> jobs[job].session, all_samples_metrics |-> table]]

Min(values) == CHOOSE v \in values : \A w \in values : v <= w

\* df[df['objective_costs'] == min_cost].iloc[-1]
BestRowLast(table) ==
    LET min_cost == Min({ table[k].objective_costs : k \in DOMAIN table })
        matching == SelectSeq(table, LAMBDA row : row.objective_costs = min_cost)
    IN  matching[Len(matching)]

\* min_cost = df['objective_costs'].min();
\* best_row = df[df['objective_costs'] == min_cost].iloc[0]
BestRow(table) ==
    LET min_cost == Min({ table[k].objective_costs : k \in DOMAIN table })
        matching == SelectSeq(table, LAMBDA row : row.objective_costs = min_cost)
    IN  matching[1]

\* ---- DPO Job Execution Example ----

\* symbols, start_date, end_date; assets = load_asset_data(...)
ExampleData ==
    /\ pc = "example_data"
    /\ env' = [env EXCEPT !.assets = 1]
    /\ pc' = NextCell(pc)
    /\ UNCHANGED <<heap, jobs, retrieved, printed>>

\* max_investment = 7
ExampleMaxInvestment ==
    /\ pc = "example_max_investment"
    /\ env' = [env EXCEPT !.max_investment = 7]
    /\ pc' = NextCell(pc)
    /\ UNCHANGED <<heap, jobs, retrieved, printed>>

\* num_generations = 5; population_size = 10
ExampleGenerations ==
    /\ pc = "example_generations"
    /\ env' = [env EXCEPT !.num_generations = 5, !.population_size = 10]
    /\ pc' = NextCell(pc)
    /\ UNCHANGED <<heap, jobs, retrieved, printed>>

\* the settings cell of the example: a new optimizer_settings dictionary
ExampleSettings ==
    /\ pc = "example_settings"
    /\ heap' = (1 :> [num_generations |-> env.num_generations,
                      population_size |-> env.population_size,
                      max_parallel_jobs |-> 3,
                      max_batchsize |-> 4,
                      optimizer |-> "differential_evolution",
                      estimator_shots |-> 5000,
                      sampler_shots |-> 10000]) @@ heap
    /\ env' = [env EXCEPT
                 !.qubo_settings = [nt |-> 3, nq |-> 2, dt |-> 30,
                                    max_investment |-> env.max_investment],
                 !.optimizer_settings = 1,
                 !.ansatz_settings = [ansatz |-> "real_amplitudes",
                                      multiple_passmanager |-> "False"],
                 !.apply_postprocess = "True",
                 !.backend_name = "None"]
    /\ pc' = NextCell(pc)
    /\ UNCHANGED <<jobs, retrieved, printed>>

\* dpo_job = dpo_solver.run(assets=assets, ..., apply_postprocess=apply_postprocess)
ExampleRun ==
    /\ pc = "example_run"
    /\ \E session \in SessionIds :
         jobs' = Submit("example", RunArgs(env, env.optimizer_settings, << >>), session)
    /\ env' = [env EXCEPT !.dpo_job = Len(jobs) + 1]
    /\ pc' = NextCell(pc)
    /\ UNCHANGED <<heap, retrieved, printed>>

\* dpo_result = dpo_job.result(): returns the result, or raises when the job failed
GetResult ==
    \/ \E table \in FlowTables :
         /\ env' = [env EXCEPT !.dpo_result = ResultOf(env.dpo_job, table)]
         /\ retrieved' = retrieved \cup {env.dpo_job}
         /\ pc' = NextCell(pc)
    \/ /\ pc' = "halted"
       /\ UNCHANGED <<env, retrieved>>

ExampleResult ==
    /\ pc = "example_result"
    /\ GetResult
    /\ UNCHANGED <<heap, jobs, printed>>

\* The metrics cell: prints three fields of best_row; .iloc[0] of an empty
\* selection raises IndexError.
PrintBest(third) ==
    LET table == env.dpo_result.metadata.all_samples_metrics IN
    IF ~ env.dpo_result.defined \/ table = << >>
    THEN pc' = "halted" /\ UNCHANGED printed
    ELSE /\ printed' = << [rest_breaches |-> BestRow(table).rest_breaches,
                           sharpe_ratios |-> BestRow(table).sharpe_ratios,
                           third |-> BestRow(table)[third]] >>
         /\ pc' = NextCell(pc)

\* prints rest_breaches, sharpe_ratios and returns
ExampleMetrics ==
    /\ pc = "example_metrics"
    /\ PrintBest("returns")
    /\ UNCHANGED <<env, heap, jobs, retrieved>>

\* ---- Exercise 1 ----

\* What the instructions of Exercise 1 ask for: (num_generations + 1) *
\* population_size is 70 circuits.
GenerationChoices ==
    { c \in (1 .. 69) \X (1 .. 70) : (c[1] + 1) * c[2] = 70 }

\* the cell's blanks filled as its comments say: NVDA, TSLA, AMZN; nt = 4,
\* nq = 2, dt = 30, max_investment = 6; assets = load_asset_data(...)
Ex1Data ==
    /\ pc = "ex1_data"
    /\ env' = [env EXCEPT !.assets = 2,
                          !.qubo_settings = [nt |-> 4, nq |-> 2, dt |-> 30,
                                             max_investment |-> 6]]
    /\ pc' = NextCell(pc)
    /\ UNCHANGED <<heap, jobs, retrieved, printed>>

\* num_generations = ...; population_size = ...
Ex1Generations ==
    /\ pc = "ex1_generations"
    /\ \E c \in GenerationChoices :
         env' = [env EXCEPT !.num_generations = c[1], !.population_size = c[2]]
    /\ pc' = NextCell(pc)
    /\ UNCHANGED <<heap, jobs, retrieved, printed>>

\* the settings cell of Exercise 1: a new optimizer_settings_ex1 dictionary
Ex1Settings ==
    /\ pc = "ex1_settings"
    /\ heap' = (2 :> [num_generations |-> env.num_generations,
                      population_size |-> env.population_size,
                      max_parallel_jobs |-> 3,
                      max_batchsize |-> 4,
                      optimizer |-> "differential_evolution",
                      estimator_shots |-> 25000,
                      sampler_shots |-> 100000]) @@ heap
    /\ env' = [env EXCEPT
                 !.optimizer_settings_ex1 = 2,
                 !.ansatz_settings = [ansatz |-> "optimized_real_amplitudes",
                                      multiple_passmanager |-> "False"],
                 !.apply_postprocess = "True",
                 !.backend_name = "None"]
    /\ pc' = NextCell(pc)
    /\ UNCHANGED <<jobs, retrieved, printed>>

\* dpo_job = dpo_solver.run(assets= , qubo_settings= , ...), the blanks filled
\* with the names grade_ex1a is given
Ex1Run ==
    /\ pc = "ex1_run"
    /\ \E session \in SessionIds :
         jobs' = Submit("ex1", RunArgs(env, env.optimizer_settings_ex1, << >>), session)
    /\ env' = [env EXCEPT !.dpo_job = Len(jobs) + 1]
    /\ pc' = NextCell(pc)
    /\ UNCHANGED <<heap, retrieved, printed>>

\* dpo_job.status(): shows the status of the job; no name is assigned
Ex1Status ==
    /\ pc = "ex1_status"
    /\ pc' = NextCell(pc)
    /\ UNCHANGED <<env, heap, jobs, retrieved, printed>>

\* dpo_result = , the blank filled as in the example: dpo_job.result()
Ex1Result ==
    /\ pc = "ex1_result"
    /\ GetResult
    /\ UNCHANGED <<heap, jobs, printed>>

\* prints rest_breaches, sharpe_ratios and transaction_costs
Ex1Metrics ==
    /\ pc = "ex1_metrics"
    /\ PrintBest("transaction_costs")
    /\ UNCHANGED <<env, heap, jobs, retrieved>>

\* ---- Exercise 2 ----

\* num_generations_ex1 = optimizer_settings_ex1['de_optimizer_settings']['num_generations']
Ex2Generations ==
    /\ pc = "ex2_generations"
    /\ env' = [env EXCEPT
                 !.num_generations_ex1 = heap[env.optimizer_settings_ex1].num_generations]
    /\ pc' = NextCell(pc)
    /\ UNCHANGED <<heap, jobs, retrieved, printed>>

\* session_id = dpo_result['metadata']['session_id']
ReadSessionId(e) == e.dpo_result.metadata.session_id

\* optimizer_settings keeps the dictionary it named before
KeepOptimizerSettings(e) == e.optimizer_settings

\* optimizer_settings = optimizer_settings_ex1: the same dictionary, not a copy
BindOptimizerSettings(e) == e.optimizer_settings_ex1

\* the blank after ['num_generations'] = , filled as the comment above it says
TodoNumGenerations(e) == e.num_generations_ex1 + 2

\* the blank after previous_session_id = , filled as the comment above it says
TodoPreviousSessionId(e) == << e.session_id >>

\* the cell that prepares the resumed run; a name that was never assigned
\* raises NameError
Ex2Settings ==
    /\ pc = "ex2_settings"
    /\ IF ~ env.dpo_result.defined \/ BindOptimizerSettings(env) = 0
       THEN pc' = "halted" /\ UNCHANGED <<env, heap>>
       ELSE LET e1 == [env EXCEPT !.session_id = ReadSessionId(env)]
                e2 == [e1 EXCEPT !.optimizer_settings = BindOptimizerSettings(e1)]
                e3 == [e2 EXCEPT !.previous_session_id = TodoPreviousSessionId(e2)]
            IN  /\ heap' = [heap EXCEPT ![e2.optimizer_settings].num_generations =
                                            TodoNumGenerations(e2)]
                /\ env' = e3
                /\ pc' = NextCell(pc)
    /\ UNCHANGED <<jobs, retrieved, printed>>

\* dpo_job = dpo_solver.run(..., previous_session_id=previous_session_id)
Ex2Run ==
    /\ pc = "ex2_run"
    /\ \E session \in SessionIds :
         jobs' = Submit("ex2", RunArgs(env, env.optimizer_settings,
                                       env.previous_session_id), session)
    /\ env' = [env EXCEPT !.dpo_job = Len(jobs) + 1]
    /\ pc' = NextCell(pc)
    /\ UNCHANGED <<heap, retrieved, printed>>

\* dpo_job.status()
Ex2Status ==
    /\ pc = "ex2_status"
    /\ pc' = NextCell(pc)
    /\ UNCHANGED <<env, heap, jobs, retrieved, printed>>

LoadIdle ==
    /\ symbols = << >>
    /\ start_date = FirstDate
    /\ end_date = FirstDate
    /\ market = << >>
    /\ series_list = << >>
    /\ assets = NoValue
    /\ lpc = "idle"

NbIdle ==
    /\ pc = "idle"
    /\ env = UnsetEnv
    /\ heap = << >>
    /\ jobs = << >>
    /\ retrieved = {}
    /\ printed = << >>

\* The example need not be executed: the cells run in order from the example
\* or from Exercise 1.
Init ==
    /\ LoadIdle
    /\ pc \in {"example_data", "ex1_data"}
    /\ env = UnsetEnv
    /\ heap = << >>
    /\ jobs = << >>
    /\ retrieved = {}
    /\ printed = << >>

Next ==
    \/ ExampleData /\ UNCHANGED loadVars
    \/ ExampleMaxInvestment /\ UNCHANGED loadVars
    \/ ExampleGenerations /\ UNCHANGED loadVars
    \/ ExampleSettings /\ UNCHANGED loadVars
    \/ ExampleRun /\ UNCHANGED loadVars
    \/ ExampleResult /\ UNCHANGED loadVars
    \/ ExampleMetrics /\ UNCHANGED loadVars
    \/ Ex1Data /\ UNCHANGED loadVars
    \/ Ex1Generations /\ UNCHANGED loadVars
    \/ Ex1Settings /\ UNCHANGED loadVars
    \/ Ex1Run /\ UNCHANGED loadVars
    \/ Ex1Status /\ UNCHANGED loadVars
    \/ Ex1Result /\ UNCHANGED loadVars
    \/ Ex1Metrics /\ UNCHANGED loadVars
    \/ Ex2Generations /\ UNCHANGED loadVars
    \/ Ex2Settings /\ UNCHANGED loadVars
    \/ Ex2Run /\ UNCHANGED loadVars
    \/ Ex2Status /\ UNCHANGED loadVars

Spec == Init /\ [][Next]_vars

\* ---- the metrics cells on any result ----
InitMetrics ==
    /\ LoadIdle
    /\ pc \in {"example_metrics", "ex1_metrics"}
    /\ \E table \in Tables :
         env = [UnsetEnv EXCEPT
                  !.dpo_result = [defined |-> TRUE,
                                  metadata |-> [session_id |-> 1,
                                                all_samples_metrics |-> table]]]
    /\ heap = << >>
    /\ jobs = << >>
    /\ retrieved = {}
    /\ printed = << >>

NextMetrics ==
    \/ ExampleMetrics /\ UNCHANGED loadVars
    \/ Ex1Metrics /\ UNCHANGED loadVars

SpecMetrics == InitMetrics /\ [][NextMetrics]_vars

\* ---- one call of load_asset_data ----
InitLoad == LoadInit /\ NbIdle

NextLoad ==
    \/ LoadIteration /\ UNCHANGED nbVars
    \/ LoadReturn /\ UNCHANGED nbVars
    \/ LoadRaise /\ UNCHANGED nbVars

SpecLoad == InitLoad /\ [][NextLoad]_vars

(***************************************************************************)
(* Properties of load_asset_data, stated without the operators above: the  *)
(* calendar is the table of month lengths, dates are compared field by     *)
(* field, and the expected price of a date is found by searching the       *)
(* downloaded days.                                                        *)
(***************************************************************************)
IsLeap(y) == (y % 4 = 0 /\ y % 100 # 0) \/ y % 400 = 0

DaysInMonth(y, m) ==
    IF m = 2 THEN (IF IsLeap(y) THEN 29 ELSE 28)
    ELSE IF m \in {4, 6, 9, 11} THEN 30 ELSE 31

Before(a, b) ==
    \/ a[1] < b[1]
    \/ a[1] = b[1] /\ a[2] < b[2]
    \/ a[1] = b[1] /\ a[2] = b[2] /\ a[3] < b[3]

\* the day after `date` in the calendar
NextDay(date) ==
    IF date[3] < DaysInMonth(date[1], date[2]) THEN <<date[1], date[2], date[3] + 1>>
    ELSE IF date[2] < 12 THEN <<date[1], date[2] + 1, 1>>
    ELSE <<date[1] + 1, 1, 1>>

\* every calendar day from `start` to `end` inclusive
RECURSIVE CalendarDays(_, _)
CalendarDays(start, end) ==
    IF Before(end, start) THEN {}
    ELSE {start} \cup CalendarDays(NextDay(start), end)

\* the dates among `days` for which Yahoo Finance returned a price for the ticker
Priced(ticker, days) ==
    { date \in days : ToOrdinal(date) \in DOMAIN market[ticker] }

PriceOn(ticker, date) == market[ticker][ToOrdinal(date)]

Earlier(dates, date) == { p \in dates : Before(p, date) }

Later(dates, date) == { p \in dates : Before(date, p) }

Latest(dates) == CHOOSE p \in dates : \A q \in dates : ~ Before(p, q)

Earliest(dates) == CHOOSE p \in dates : \A q \in dates : ~ Before(q, p)

\* the symbol's own prices by date, gaps filled
OwnPrices(ticker, days) ==
    LET priced == Priced(ticker, days) IN
    [date \in days |->
        IF date \in priced THEN PriceOn(ticker, date)
        ELSE IF Earlier(priced, date) # {}
             THEN PriceOn(ticker, Latest(Earlier(priced, date)))
        ELSE IF Later(priced, date) # {}
             THEN PriceOn(ticker, Earliest(Later(priced, date)))
        ELSE NaN]

Returned == lpc = "returned"

\* C1: when load_asset_data returns for start_date <= end_date, every asset of
\* the returned data has the same set of dates, and that set is every calendar
\* day from start_date to end_date inclusive, whatever days were downloaded.
C1_SameCalendarDates ==
    (Returned /\ ~ Before(end_date, start_date)) =>
        LET days == CalendarDays(start_date, end_date) IN
        \A label \in DOMAIN assets : DOMAIN assets[label] = days

\* C1 witness: two assets with prices on different days, over a range of several days
C1_Witness ==
    /\ Returned
    /\ Before(start_date, end_date)
    /\ \E a, b \in DOMAIN market :
         /\ a # b
         /\ DOMAIN market[a] # DOMAIN market[b]
         /\ DOMAIN market[a] # {}
         /\ {a, b} \subseteq DOMAIN assets

\* C2: in the returned data, a date of the range without a downloaded price but
\* with an earlier priced date in the range holds the price of the latest
\* earlier priced date of that symbol.
C2_ForwardFill ==
    Returned =>
        LET days == CalendarDays(start_date, end_date) IN
        \A k \in DOMAIN symbols :
            LET ticker == Ticker(symbols[k])
                priced == Priced(ticker, days)
            IN  \A date \in days \ priced :
                    Earlier(priced, date) # {} =>
                        assets[ticker][date] =
                            PriceOn(ticker, Latest(Earlier(priced, date)))

\* C2 witness: a gap that lies between two priced dates with different prices
C2_Witness ==
    /\ Returned
    /\ LET days == CalendarDays(start_date, end_date) IN
       \E k \in DOMAIN symbols :
         LET ticker == Ticker(symbols[k])
             priced == Priced(ticker, days)
         IN  \E date \in days \ priced :
                /\ Earlier(priced, date) # {}
                /\ Later(priced, date) # {}
                /\ PriceOn(ticker, Latest(Earlier(priced, date)))
                     # PriceOn(ticker, Earliest(Later(priced, date)))

\* C3: in the returned data every symbol has a price for every date of the
\* range; no value is left missing, whatever was downloaded.
C3_NoValueMissing ==
    Returned =>
        LET days == CalendarDays(start_date, end_date) IN
        \A k \in DOMAIN symbols :
            \A date \in days :
                /\ Ticker(symbols[k]) \in DOMAIN assets
                /\ date \in DOMAIN assets[Ticker(symbols[k])]
                /\ assets[Ticker(symbols[k])][date] # NaN

Distinct(list) == \A j, k \in DOMAIN list : j # k => list[j] # list[k]

\* C4: for a list of distinct symbols the returned dictionary has exactly one
\* entry per requested symbol, keyed by the symbol with every '.' replaced by
\* '_', and each entry holds that symbol's own prices by date.
C4_OneEntryPerSymbol ==
    (Returned /\ Distinct(symbols)) =>
        LET days == CalendarDays(start_date, end_date) IN
        /\ DOMAIN assets = { Replace(symbols[k]) : k \in DOMAIN symbols }
        /\ Cardinality(DOMAIN assets) = Len(symbols)
        /\ \A k \in DOMAIN symbols :
             assets[Replace(symbols[k])] = OwnPrices(Ticker(symbols[k]), days)

\* C9: for a symbol with at least one downloaded price, every date of the range
\* before its first priced date holds the price of that first priced date.
C9_LeadingGapBackFilled ==
    Returned =>
        LET days == CalendarDays(start_date, end_date) IN
        \A k \in DOMAIN symbols :
            LET ticker == Ticker(symbols[k])
                priced == Priced(ticker, days)
            IN  priced # {} =>
                    \A date \in Earlier(days, Earliest(priced)) :
                        assets[ticker][date] = PriceOn(ticker, Earliest(priced))

\* C9 witness: a leading gap, then two priced dates with different prices
C9_Witness ==
    /\ Returned
    /\ LET days == CalendarDays(start_date, end_date) IN
       \E k \in DOMAIN symbols :
         LET ticker == Ticker(symbols[k])
             priced == Priced(ticker, days)
         IN  /\ Cardinality(priced) >= 2
             /\ Before(start_date, Earliest(priced))
             /\ PriceOn(ticker, Earliest(priced)) # PriceOn(ticker, Latest(priced))

(***************************************************************************)
(* Properties of the notebook's cells.                                     *)
(***************************************************************************)
\* the optimizer settings of `base` with two more generations
TwoMoreGenerations(base) == [base EXCEPT !.num_generations = @ + 2]

\* C5: the resumed run of Exercise 2 is submitted with the parameters of the
\* Exercise 1 run (assets, qubo_settings, ansatz_settings, backend_name,
\* apply_postprocess and every optimizer setting) except num_generations,
\* which is the Exercise 1 number of generations plus two.
C5_ResumeSameParameters ==
    \A j \in DOMAIN jobs :
        jobs[j].cell = "ex2" =>
            \E i \in 1 .. j - 1 :
                /\ jobs[i].cell = "ex1"
                /\ jobs[j].params.assets = jobs[i].params.assets
                /\ jobs[j].params.qubo_settings = jobs[i].params.qubo_settings
                /\ jobs[j].params.ansatz_settings = jobs[i].params.ansatz_settings
                /\ jobs[j].params.backend_name = jobs[i].params.backend_name
                /\ jobs[j].params.apply_postprocess = jobs[i].params.apply_postprocess
                /\ jobs[j].params.optimizer_settings =
                       TwoMoreGenerations(jobs[i].params.optimizer_settings)

\* C5 witness: the resumed run was submitted after an example run whose
\* parameters differ from those of Exercise 1
C5_Witness ==
    \E j, i, x \in DOMAIN jobs :
        /\ jobs[j].cell = "ex2"
        /\ jobs[i].cell = "ex1"
        /\ jobs[x].cell = "example"
        /\ jobs[x].params.optimizer_settings # jobs[i].params.optimizer_settings
        /\ jobs[j].params.optimizer_settings.num_generations > 2

\* C6: a job submitted with a previous_session_id is submitted after the result
\* of the job before it was retrieved, and its previous_session_id is the list
\* holding the session id of that result.
C6_ResumeAfterResult ==
    \A j \in DOMAIN jobs :
        jobs[j].params.previous_session_id # << >> =>
            /\ j - 1 \in retrieved
            /\ jobs[j].params.previous_session_id = << jobs[j - 1].session >>

\* C6 witness: a resumed job, after an example job that ran in another session
C6_Witness ==
    \E j \in DOMAIN jobs :
        /\ jobs[j].params.previous_session_id # << >>
        /\ \E x \in 1 .. j - 1 :
             /\ jobs[x].cell = "example"
             /\ x \in retrieved
             /\ jobs[x].session # jobs[j - 1].session

JustPrinted == printed # << >> /\ pc \in {"ex1_data", "ex2_generations"}

\* the position of the first sample whose objective cost no sample undercuts
FirstCheapest(table) ==
    CHOOSE k \in DOMAIN table :
        /\ \A j \in DOMAIN table : table[k].objective_costs <= table[j].objective_costs
        /\ \A j \in 1 .. k - 1 : table[j].objective_costs > table[k].objective_costs

\* C8: the metrics a metrics cell prints are those of one sample, the first in
\* sample order among the samples of minimum objective cost.
C8_PrintsFirstCheapest ==
    JustPrinted =>
        LET table == env.dpo_result.metadata.all_samples_metrics
            best == table[FirstCheapest(table)]
        IN  /\ printed[1].rest_breaches = best.rest_breaches
            /\ printed[1].sharpe_ratios = best.sharpe_ratios
            /\ printed[1].third = IF pc = "ex1_data" THEN best.returns
                                  ELSE best.transaction_costs

\* C8 witness: two samples share the minimum cost and differ in every metric
C8_Witness ==
    /\ JustPrinted
    /\ LET table == env.dpo_result.metadata.all_samples_metrics IN
       /\ Len(table) = 2
       /\ table[1].objective_costs = table[2].objective_costs
       /\ table[1].rest_breaches # table[2].rest_breaches
       /\ table[1].sharpe_ratios # table[2].sharpe_ratios
       /\ table[1].transaction_costs # table[2].transaction_costs
       /\ table[1].returns # table[2].returns

====
